---- MODULE Spec2Model ----
(***************************************************************************)
(* Model of github.com/rkosegi/go-http-commons, package middlewares:       *)
(*   - respInterceptor, the decorating http.ResponseWriter                 *)
(*   - interceptorBuilderImpl, the generic before/after middleware         *)
(*   - loggingBuilderImpl, the request/response logging middleware         *)
(*                                                                         *)
(* Three specifications share the module.  SpecResp drives one             *)
(* respInterceptor directly, the way a handler holding it would.  SpecGen  *)
(* runs requests through middlewares built by an InterceptorBuilder.       *)
(* SpecLog runs requests through middlewares built by a LoggingBuilder.    *)
(* Each specification leaves the variables of the other two untouched.     *)
(*                                                                         *)
(* Go's int is 64 bits wide; the byte counts here stay far below 2^63, so  *)
(* the counters are modelled as unbounded integers.                        *)
(***************************************************************************)
EXTENDS Integers, Sequences, FiniteSets

(* ---- bounds of the model ---- *)

\* calls a handler makes on one respInterceptor in SpecResp
MaxCalls == 4
\* longest byte slice passed to Write
MaxLen == 3
\* calls the wrapped handler makes on its response writer, per request
MaxHandlerCalls == 2
\* middlewares built from one InterceptorBuilder
MaxBuilds == 1
\* calls made on the LoggingBuilder, setters and Build together
MaxBuilderCalls == 3
MaxMappers == 3

(* ---- inputs ---- *)

\* http.StatusOK, the value Status() falls back to
StatusOK == 200
\* status codes a handler passes to WriteHeader
StatusCodes == {200, 404, 500}
\* inbound requests: method, URL path, ContentLength
Requests ==
    {[method |-> "GET", path |-> "/health", size |-> 0],
     [method |-> "POST", path |-> "/items", size |-> 2]}
\* predicates a caller passes to WithRequestFilter; "always" is the default
\* installed by NewInterceptorBuilder, "getOnly" accepts GET requests
Filters == {"always", "getOnly"}
\* callbacks a caller passes to WithBeforeCallback; "bcb0" is the default no-op
BeforeCallbacks == {"bcb0", "bcb1"}
\* callbacks a caller passes to WithCallback; "cb0" is the default no-op
Callbacks == {"cb0", "cb1"}
\* byte counts the real sink reports for the Write calls of a wrapped
\* handler: "ab", "cde"
HandlerSizes == {2, 3}
\* status codes a wrapped handler passes to WriteHeader
HandlerStatusCodes == {404}
\* slog.LevelInfo, the default, and slog.LevelDebug
LevelInfo == 0
LevelDebug == -4
\* levels a caller passes to WithLevel
Levels == {LevelInfo, LevelDebug}
\* loggers a caller passes to WithLogger; "default" is slog.Default()
Loggers == {"default", "custom"}
DefHttpReqMessage == "http request"
DefHttpRespMessage == "http response"
\* messages a caller passes to WithRequestMessage and WithResponseMessage
ReqMessages == {DefHttpReqMessage, "request in"}
RespMessages == {DefHttpRespMessage, "response out"}
\* argument lists a caller passes to AddRequestInfoExtractors and
\* AddResponseInfoExtractors; an extractor is named by its constructor
ReqExtractorArgs ==
    {<<"MethodReqInfoExtractor">>,
     <<"MethodReqInfoExtractor", "PathReqInfoExtractor">>,
     <<"SizeReqInfoExtractor", "MethodReqInfoExtractor">>}
RespExtractorArgs ==
    {<<"StatusRespInfoExtractor">>,
     <<"SizeRespInfoExtractor", "StatusRespInfoExtractor">>}
\* what the handler behind the logging middleware writes
LogHandlerSizes == {2, 3}
LogHandlerStatusCodes == {404}
\* goroutines serving requests: SpecGen and SpecLog serve one request at a time
Slots == {1}

VARIABLES
    lbHeap,  \* SpecLog: the loggingBuilderImpl objects, by address
    lmw,     \* SpecLog: the middlewares Build returned, each a closure
    lbuilt,  \* SpecLog: for each middleware, the builder's fields when it was built
    lcalls,  \* SpecLog: number of calls made on the builder
    lreq,    \* SpecLog: per goroutine, the request it serves and how far it got
    ibHeap,  \* SpecGen: the interceptorBuilderImpl objects, by address
    imw,     \* SpecGen: the middlewares Build returned, each a closure
    ibuilt,  \* SpecGen: for each middleware, the builder's fields when it was built
    greq,    \* SpecGen: per goroutine, the request it serves and how far it got
    ir,      \* SpecResp: the respInterceptor under test
    w,       \* SpecResp: its delegate, the real http.ResponseWriter
    obs,     \* SpecResp: what the caller has passed in and got back so far:
             \*   calls, writes, hdrCalls  number of calls made
             \*   asked     sum of the lengths passed to Write
             \*   returned  sum of the counts Write returned
             \*   full      every Write so far was accepted in full, without error
             \*   firstStatus  the argument of the first WriteHeader call, when
             \*                that call came before any Write (0 otherwise)
             \*   ret       the last call and what it returned
             \*   sink      what delegate.Write returned in the last Write
             \*   sinkSum   sum of the counts delegate.Write returned
             \*   hj        Hijack: calls made, what the last one returned
             \*             (ret) and what the sink's Hijack returned (sink)
    conc,    \* SpecConc: two requests served at once by the same middlewares
    chk,     \* SpecCheck: a ServerConfig and what Check returned for it
    run,     \* SpecRun: one call of RunUntil or RunForever, its goroutines
    out      \* SpecOut: an output builder, the Interface built from it, a send

respVars == <<ir, w, obs>>
genVars == <<ibHeap, imw, ibuilt, greq>>
logVars == <<lbHeap, lmw, lbuilt, lcalls, lreq>>
auxVars == <<conc, chk, run, out>>
vars == <<ir, w, obs, ibHeap, imw, ibuilt, greq, lbHeap, lmw, lbuilt, lcalls, lreq,
          conc, chk, run, out>>

(***************************************************************************)
(* The real sink.  http.ResponseWriter is an interface implemented outside *)
(* this repository; the model records what it is asked to do:              *)
(* headerCalls is the sequence of status codes passed to its WriteHeader,  *)
(* body the number of bytes its Write calls reported as written.           *)
(***************************************************************************)
NewSink == [headerCalls |-> <<>>, body |-> 0]

SinkWriteHeader(d, statusCode) == [d EXCEPT !.headerCalls = Append(@, statusCode)]

\* the sink accepted size of the bytes it was handed
SinkWrite(d, size) == [d EXCEPT !.body = @ + size]

(***************************************************************************)
(* respInterceptor.  delegate and req are references that never change     *)
(* after construction: the delegate's state is kept next to the            *)
(* interceptor, and every method below takes and returns both.             *)
(* sendStatus (sync.Once) is never used by any method.                     *)
(***************************************************************************)
NewRespInterceptor == [wroteHeader |-> FALSE, written |-> 0, status |-> 0]

\* Write(bytes): size and err are what delegate.Write(bytes) returned
Write_overwrite(i, d, size, err) ==
    [ir |-> [i EXCEPT !.wroteHeader = TRUE, !.written = size],
     w |-> SinkWrite(d, size),
     size |-> size, err |-> err]

\* Write(bytes) that reports every write as a success
Write_swallow(i, d, size, err) ==
    [ir |-> [i EXCEPT !.wroteHeader = TRUE, !.written = @ + size],
     w |-> SinkWrite(d, size),
     size |-> size, err |-> FALSE]

\* Write(bytes) that counts only the writes that did not fail
Write_countOk(i, d, size, err) ==
    [ir |-> [i EXCEPT !.wroteHeader = TRUE,
                      !.written = IF err THEN @ ELSE @ + size],
     w |-> SinkWrite(d, size),
     size |-> size, err |-> err]

Write(i, d, size, err) ==
    [ir |-> [i EXCEPT !.wroteHeader = TRUE, !.written = @ + size],
     w |-> SinkWrite(d, size),
     size |-> size, err |-> err]

\* WriteHeader(statusCode) that does not look at wroteHeader
WriteHeader_unguarded(i, d, statusCode) ==
    [ir |-> [i EXCEPT !.status = statusCode],
     w |-> SinkWriteHeader(d, statusCode)]

WriteHeader(i, d, statusCode) ==
    IF ~i.wroteHeader
    THEN [ir |-> [i EXCEPT !.status = statusCode],
          w |-> SinkWriteHeader(d, statusCode)]
    ELSE [ir |-> i, w |-> d]

Written(i) == i.written

\* a (net.Conn, *bufio.ReadWriter, error) result; "nil" stands for nil
NilHijackResult == [conn |-> "nil", rw |-> "nil", err |-> "nil"]

\* Hijack() that reports nothing at all when the delegate is no http.Hijacker
Hijack_silent(d, res) == IF ~d.hijacker THEN NilHijackResult ELSE res

\* Hijack(): d.hijacker says whether the delegate is an http.Hijacker, res is
\* what its Hijack() returned
Hijack(d, res) ==
    IF ~d.hijacker
    THEN [conn |-> "nil", rw |-> "nil", err |-> "hijack not supported"]
    ELSE res

\* Status() stores the default into the field before returning it
Status_raw(i) == [ir |-> i, val |-> i.status]

Status(i) ==
    LET j == IF i.status = 0 THEN [i EXCEPT !.status = StatusOK] ELSE i
    IN  [ir |-> j, val |-> j.status]

(***************************************************************************)
(* SpecResp: a handler calling the methods of one interceptor.             *)
(***************************************************************************)
NoRet == [op |-> "none", val |-> 0, err |-> FALSE]

NewObs ==
    [calls |-> 0, writes |-> 0, hdrCalls |-> 0, asked |-> 0,
     returned |-> 0, full |-> TRUE, firstStatus |-> 0, ret |-> NoRet,
     sink |-> [size |-> 0, err |-> FALSE], sinkSum |-> 0,
     hj |-> [calls |-> 0, ret |-> NilHijackResult, sink |-> NilHijackResult]]

InitResp ==
    /\ ir = NewRespInterceptor
    /\ w = NewSink
    /\ obs = NewObs

\* i.Write(bytes) with len(bytes) = n; the sink takes size of them
CallWrite ==
    /\ obs.calls < MaxCalls
    /\ \E n \in 0..MaxLen, size \in 0..MaxLen, err \in BOOLEAN :
        /\ size <= n
        /\ (size < n) => err          \* io.Writer: a short write reports an error
        /\ LET r == Write(ir, w, size, err) IN
            /\ ir' = r.ir
            /\ w' = r.w
            /\ obs' = [obs EXCEPT !.calls = @ + 1,
                                  !.writes = @ + 1,
                                  !.asked = @ + n,
                                  !.returned = @ + r.size,
                                  !.full = @ /\ size = n /\ ~err,
                                  !.ret = [op |-> "Write", val |-> r.size, err |-> r.err],
                                  !.sink = [size |-> size, err |-> err],
                                  !.sinkSum = @ + size]
    /\ UNCHANGED <<genVars, logVars, auxVars>>

\* i.WriteHeader(statusCode)
CallWriteHeader ==
    /\ obs.calls < MaxCalls
    /\ \E statusCode \in StatusCodes :
        LET r == WriteHeader(ir, w, statusCode) IN
            /\ ir' = r.ir
            /\ w' = r.w
            /\ obs' = [obs EXCEPT !.calls = @ + 1,
                                  !.hdrCalls = @ + 1,
                                  !.firstStatus =
                                      IF obs.hdrCalls = 0 /\ obs.writes = 0
                                      THEN statusCode ELSE @,
                                  !.ret = [op |-> "WriteHeader", val |-> 0, err |-> FALSE]]
    /\ UNCHANGED <<genVars, logVars, auxVars>>

\* i.Status()
CallStatus ==
    LET r == Status(ir) IN
        /\ ir' = r.ir
        /\ obs' = [obs EXCEPT !.ret = [op |-> "Status", val |-> r.val, err |-> FALSE]]
        /\ UNCHANGED <<w, genVars, logVars, auxVars>>

\* i.Written()
CallWritten ==
    /\ obs' = [obs EXCEPT !.ret = [op |-> "Written", val |-> Written(ir), err |-> FALSE]]
    /\ UNCHANGED <<ir, w, genVars, logVars, auxVars>>

NextResp ==
    \/ CallWrite
    \/ CallWriteHeader
    \/ CallStatus
    \/ CallWritten

(***************************************************************************)
(* SpecHijack: the interceptor wraps a sink that is an http.Hijacker or    *)
(* one that is not; the handler calls Write, WriteHeader and Hijack.  The  *)
(* sink counts the Hijack calls it gets (hijackCalls) and is taken over    *)
(* (taken) once its Hijack returned a connection and no error; nothing is  *)
(* called through the interceptor after that.                              *)
(***************************************************************************)
NewHijackSink(hijacker) ==
    [headerCalls |-> <<>>, body |-> 0, hijacker |-> hijacker,
     hijackCalls |-> 0, taken |-> FALSE]

\* what an http.Hijacker's Hijack() may return
SinkHijackResults ==
    [conn : {"nil", "conn"}, rw : {"nil", "rw"}, err : {"nil", "sink error"}]

SinkHijack(d, res) ==
    [d EXCEPT !.hijackCalls = @ + 1,
              !.taken = res.conn # "nil" /\ res.err = "nil"]

InitHijack ==
    /\ ir = NewRespInterceptor
    /\ \E hijacker \in BOOLEAN : w = NewHijackSink(hijacker)
    /\ obs = NewObs

\* i.Hijack()
CallHijack ==
    /\ obs.calls < MaxCalls
    /\ ~w.taken
    /\ \E res \in SinkHijackResults :
        /\ w' = IF w.hijacker THEN SinkHijack(w, res) ELSE w
        /\ obs' = [obs EXCEPT !.calls = @ + 1,
                              !.hj = [calls |-> @.calls + 1,
                                      ret |-> Hijack(w, res),
                                      sink |-> IF w.hijacker THEN res ELSE @.sink]]
    /\ UNCHANGED <<ir, genVars, logVars, auxVars>>

HijackWrite == ~w.taken /\ CallWrite

HijackWriteHeader == ~w.taken /\ CallWriteHeader

NextHijack ==
    \/ CallHijack
    \/ HijackWrite
    \/ HijackWriteHeader

(***************************************************************************)
(* The wrapped handler (next) is caller code.  It calls Write and          *)
(* WriteHeader on whatever writer q.sink says it was handed: the           *)
(* respInterceptor q.irs[1], or the server's writer q.w itself.            *)
(***************************************************************************)
HandlerWrite(q, size, err) ==
    IF q.sink = "ir"
    THEN LET x == Write(q.irs[1], q.w, size, err) IN
         [q EXCEPT !.irs = <<x.ir>>, !.w = x.w, !.calls = @ + 1, !.hsum = @ + x.size]
    ELSE [q EXCEPT !.w = SinkWrite(@, size), !.calls = @ + 1, !.hsum = @ + size]

HandlerWriteHeader(q, statusCode) ==
    IF q.sink = "ir"
    THEN LET x == WriteHeader(q.irs[1], q.w, statusCode) IN
         [q EXCEPT !.irs = <<x.ir>>, !.w = x.w, !.calls = @ + 1]
    ELSE [q EXCEPT !.w = SinkWriteHeader(@, statusCode), !.calls = @ + 1]

(***************************************************************************)
(* interceptorBuilderImpl.  The builder is one heap object; the setters    *)
(* assign its fields in place and return the same pointer.  Function       *)
(* values are modelled by their names.                                     *)
(***************************************************************************)
NewInterceptorBuilder == [filterFn |-> "always", bcb |-> "bcb0", cb |-> "cb0"]

\* address of the builder NewInterceptorBuilder returned
TheBuilder == 1

WithRequestFilter(b, f) == [b EXCEPT !.filterFn = f]

WithBeforeCallback(b, cb) == [b EXCEPT !.bcb = cb]

WithCallback(b, cb) == [b EXCEPT !.cb = cb]

\* Build(): the returned closure captures the receiver i, a pointer
InterceptorBuild(i) == [i |-> i]

\* i.filterFn(r) for the predicates of Filters
FilterEval(f, r) == f = "always" \/ r.method = "GET"

(***************************************************************************)
(* The handler Build() returns, part_001:125-134, as the positions of one  *)
(* goroutine serving one request:                                          *)
(*   idle      before ServeHTTP is entered                                 *)
(*   before    i.filterFn(r) returned true, i.bcb(r) comes next            *)
(*   dispatch  i.bcb(r) returned, ir is created and next.ServeHTTP(ir, r)  *)
(*             is entered next                                             *)
(*   pass      i.filterFn(r) returned false, next.ServeHTTP(w, r) is       *)
(*             entered next                                                *)
(*   handler   inside next.ServeHTTP                                       *)
(*   after     next.ServeHTTP(ir, r) returned, i.cb(ir) comes next         *)
(*   done      ServeHTTP returned                                          *)
(***************************************************************************)
AfterFilter_always(res) == "before"

\* if i.filterFn(r) {...} else {...}
AfterFilter(res) == IF res THEN "before" ELSE "pass"

AfterHandler_skip(sink) == "done"

\* where next.ServeHTTP returns to: line 130 in the intercepting branch,
\* the end of the function in the other
AfterHandler(sink) == IF sink = "ir" THEN "after" ELSE "done"

NoRequest == [method |-> "", path |-> "", size |-> 0]

\* mw: the middleware serving; r: the request; w: the server's response
\* writer; irs: the respInterceptor created for the request, if any;
\* sink: what next.ServeHTTP was handed ("ir" or "raw"); calls: calls the
\* wrapped handler made on it; hsum: sum of the counts its Write calls
\* returned; trace: the calls made by the middleware and the return of
\* next.ServeHTTP (with the interceptor as the handler left it), in order
IdleReq ==
    [pc |-> "idle", mw |-> 0, r |-> NoRequest, w |-> NewSink, irs |-> <<>>,
     sink |-> "none", calls |-> 0, hsum |-> 0, trace |-> <<>>]

InitGen ==
    /\ ibHeap = <<NewInterceptorBuilder>>
    /\ imw = <<>>
    /\ ibuilt = <<>>
    /\ greq = [s \in Slots |-> IdleReq]

\* the builder fields a middleware reads, through the pointer it captured
ICfg(m) == ibHeap[imw[m].i]

CallWithRequestFilter ==
    /\ \E f \in Filters :
        ibHeap' = [ibHeap EXCEPT ![TheBuilder] = WithRequestFilter(@, f)]
    /\ UNCHANGED <<imw, ibuilt, greq, respVars, logVars, auxVars>>

CallWithBeforeCallback ==
    /\ \E cb \in BeforeCallbacks :
        ibHeap' = [ibHeap EXCEPT ![TheBuilder] = WithBeforeCallback(@, cb)]
    /\ UNCHANGED <<imw, ibuilt, greq, respVars, logVars, auxVars>>

CallWithCallback ==
    /\ \E cb \in Callbacks :
        ibHeap' = [ibHeap EXCEPT ![TheBuilder] = WithCallback(@, cb)]
    /\ UNCHANGED <<imw, ibuilt, greq, respVars, logVars, auxVars>>

CallInterceptorBuild ==
    /\ Len(imw) < MaxBuilds
    /\ imw' = Append(imw, InterceptorBuild(TheBuilder))
    /\ ibuilt' = Append(ibuilt, ibHeap[TheBuilder])
    /\ UNCHANGED <<ibHeap, greq, respVars, logVars, auxVars>>

\* ServeHTTP(w, r) is entered and evaluates i.filterFn(r)
GServe(s) ==
    /\ greq[s].pc = "idle"
    /\ \E m \in 1..Len(imw), r \in Requests :
        LET f == ICfg(m).filterFn
            res == FilterEval(f, r)
        IN  greq' = [greq EXCEPT ![s] =
                [@ EXCEPT !.pc = AfterFilter(res), !.mw = m, !.r = r,
                          !.trace = <<[e |-> "filter", fn |-> f, res |-> res]>>]]
    /\ UNCHANGED <<ibHeap, imw, ibuilt, respVars, logVars, auxVars>>

\* a handler that forgets the wrapped handler when it does not intercept
NextServeHTTP_skipRaw(sink, r) ==
    IF sink = "raw" THEN <<>> ELSE <<[e |-> "next", sink |-> sink, r |-> r]>>

\* the calls of next.ServeHTTP one pass through a branch makes: one, with
\* the writer of the branch (ir or w) and the request ServeHTTP was given
NextServeHTTP(sink, r) == <<[e |-> "next", sink |-> sink, r |-> r]>>

\* i.bcb(r)
GBefore(s) ==
    /\ greq[s].pc = "before"
    /\ greq' = [greq EXCEPT ![s] =
            [@ EXCEPT !.pc = "dispatch",
                      !.trace = Append(@, [e |-> "bcb", fn |-> ICfg(greq[s].mw).bcb,
                                           r |-> greq[s].r])]]
    /\ UNCHANGED <<ibHeap, imw, ibuilt, respVars, logVars, auxVars>>

\* ir := &respInterceptor{delegate: w, req: r}; next.ServeHTTP(ir, r) is entered
GDispatch(s) ==
    /\ greq[s].pc = "dispatch"
    /\ greq' = [greq EXCEPT ![s] =
            [@ EXCEPT !.pc = "handler", !.irs = <<NewRespInterceptor>>, !.sink = "ir",
                      !.trace = @ \o NextServeHTTP("ir", greq[s].r)]]
    /\ UNCHANGED <<ibHeap, imw, ibuilt, respVars, logVars, auxVars>>

\* next.ServeHTTP(w, r) is entered
GPass(s) ==
    /\ greq[s].pc = "pass"
    /\ greq' = [greq EXCEPT ![s] =
            [@ EXCEPT !.pc = "handler", !.sink = "raw",
                      !.trace = @ \o NextServeHTTP("raw", greq[s].r)]]
    /\ UNCHANGED <<ibHeap, imw, ibuilt, respVars, logVars, auxVars>>

\* the wrapped handler calls Write on the writer it was handed; the real
\* sink takes all size bytes of the slice
GHandlerWrite(s) ==
    /\ greq[s].pc = "handler"
    /\ greq[s].calls < MaxHandlerCalls
    /\ \E size \in HandlerSizes :
        greq' = [greq EXCEPT ![s] = HandlerWrite(@, size, FALSE)]
    /\ UNCHANGED <<ibHeap, imw, ibuilt, respVars, logVars, auxVars>>

\* the wrapped handler calls WriteHeader on the writer it was handed
GHandlerWriteHeader(s) ==
    /\ greq[s].pc = "handler"
    /\ greq[s].calls < MaxHandlerCalls
    /\ \E statusCode \in HandlerStatusCodes :
        greq' = [greq EXCEPT ![s] = HandlerWriteHeader(@, statusCode)]
    /\ UNCHANGED <<ibHeap, imw, ibuilt, respVars, logVars, auxVars>>

\* next.ServeHTTP returns
GHandlerReturn(s) ==
    /\ greq[s].pc = "handler"
    /\ greq' = [greq EXCEPT ![s] =
            [@ EXCEPT !.pc = AfterHandler(greq[s].sink),
                      !.trace = Append(@, [e |-> "return", irs |-> greq[s].irs])]]
    /\ UNCHANGED <<ibHeap, imw, ibuilt, respVars, logVars, auxVars>>

\* i.cb(ir); the callback reads ir.Status() and ir.Written()
GAfter(s) ==
    /\ greq[s].pc = "after"
    /\ LET st == Status(greq[s].irs[1]) IN
        greq' = [greq EXCEPT ![s] =
            [@ EXCEPT !.pc = "done", !.irs = <<st.ir>>,
                      !.trace = Append(@, [e |-> "cb", fn |-> ICfg(greq[s].mw).cb,
                                           status |-> st.val,
                                           written |-> Written(st.ir)])]]
    /\ UNCHANGED <<ibHeap, imw, ibuilt, respVars, logVars, auxVars>>

\* the goroutine takes the next request
GRecycle(s) ==
    /\ greq[s].pc = "done"
    /\ greq' = [greq EXCEPT ![s] = IdleReq]
    /\ UNCHANGED <<ibHeap, imw, ibuilt, respVars, logVars, auxVars>>

NextGen ==
    \/ CallWithRequestFilter
    \/ CallWithBeforeCallback
    \/ CallWithCallback
    \/ CallInterceptorBuild
    \/ \E s \in Slots : GServe(s)
    \/ \E s \in Slots : GBefore(s)
    \/ \E s \in Slots : GDispatch(s)
    \/ \E s \in Slots : GPass(s)
    \/ \E s \in Slots : GHandlerWrite(s)
    \/ \E s \in Slots : GHandlerWriteHeader(s)
    \/ \E s \in Slots : GHandlerReturn(s)
    \/ \E s \in Slots : GAfter(s)
    \/ \E s \in Slots : GRecycle(s)

(***************************************************************************)
(* SpecPanic: the interceptor middleware with a filter that may panic.     *)
(* "panics" is a predicate that panics on every request.  The handler      *)
(* Build() returns has no recover, so a panic inside i.filterFn(r) unwinds *)
(* ServeHTTP and reaches its caller: position "panicked", with the panic   *)
(* as the last entry of the trace.  Everything after the filter call is    *)
(* as in SpecGen.                                                          *)
(***************************************************************************)
PanicFilters == Filters \cup {"panics"}

\* i.filterFn(r): "true", "false", or "panic" when the call does not return
FilterCall(f, r) ==
    IF f = "panics" THEN "panic"
    ELSE IF FilterEval(f, r) THEN "true" ELSE "false"

\* a handler that recovers from the panic and goes on as if the filter had
\* returned false
AfterFilterCall_recover(res) ==
    IF res = "true" THEN "before" ELSE "pass"

\* where ServeHTTP goes after the call of line 126
AfterFilterCall(res) ==
    IF res = "panic" THEN "panicked"
    ELSE AfterFilter(res = "true")

CallWithPanicFilter ==
    /\ \E f \in PanicFilters :
        ibHeap' = [ibHeap EXCEPT ![TheBuilder] = WithRequestFilter(@, f)]
    /\ UNCHANGED <<imw, ibuilt, greq, respVars, logVars, auxVars>>

\* ServeHTTP(w, r) is entered and calls i.filterFn(r)
PServe(s) ==
    /\ greq[s].pc = "idle"
    /\ \E m \in 1..Len(imw), r \in Requests :
        LET f == ICfg(m).filterFn
            res == FilterCall(f, r)
            to == AfterFilterCall(res)
        IN  greq' = [greq EXCEPT ![s] =
                [@ EXCEPT !.pc = to, !.mw = m, !.r = r,
                          !.trace = <<[e |-> "filter", fn |-> f, res |-> res = "true"]>>
                                        \o (IF to = "panicked"
                                            THEN <<[e |-> "panic", fn |-> f]>>
                                            ELSE <<>>)]]
    /\ UNCHANGED <<ibHeap, imw, ibuilt, respVars, logVars, auxVars>>

\* the caller of ServeHTTP has dealt with the panic; the goroutine takes the
\* next request
PRecover(s) ==
    /\ greq[s].pc = "panicked"
    /\ greq' = [greq EXCEPT ![s] = IdleReq]
    /\ UNCHANGED <<ibHeap, imw, ibuilt, respVars, logVars, auxVars>>

NextPanic ==
    \/ CallWithPanicFilter
    \/ CallInterceptorBuild
    \/ \E s \in Slots : PServe(s)
    \/ \E s \in Slots : PRecover(s)
    \/ \E s \in Slots : GBefore(s)
    \/ \E s \in Slots : GDispatch(s)
    \/ \E s \in Slots : GPass(s)
    \/ \E s \in Slots : GHandlerWrite(s)
    \/ \E s \in Slots : GHandlerWriteHeader(s)
    \/ \E s \in Slots : GHandlerReturn(s)
    \/ \E s \in Slots : GAfter(s)
    \/ \E s \in Slots : GRecycle(s)

(***************************************************************************)
(* Extractors.  A log argument is a Go interface value: its dynamic type   *)
(* and the value.                                                          *)
(***************************************************************************)
AnyString(v) == <<"string", v>>
AnyInt(v) == <<"int", v>>
AnyInt64(v) == <<"int64", v>>

MethodReqInfoExtractor(r) == <<"method", AnyString(r.method)>>
PathReqInfoExtractor(r) == <<"path", AnyString(r.path)>>
SizeReqInfoExtractor(r) == <<"size", AnyInt64(r.size)>>

\* the extractors read the InterceptedResponse; Status() may write to it
StatusRespInfoExtractor(i) ==
    LET st == Status(i) IN [ir |-> st.ir, k |-> "status", v |-> AnyInt(st.val)]
SizeRespInfoExtractor(i) == [ir |-> i, k |-> "body_size", v |-> AnyInt(Written(i))]

DefaultReqInfoExtractors ==
    <<"MethodReqInfoExtractor", "PathReqInfoExtractor", "SizeReqInfoExtractor">>
DefaultRespInfoExtractors ==
    <<"StatusRespInfoExtractor", "SizeRespInfoExtractor">>

\* fn(r) for a request extractor named fn
CallReqExtractor(fn, r) ==
    CASE fn = "MethodReqInfoExtractor" -> MethodReqInfoExtractor(r)
      [] fn = "PathReqInfoExtractor" -> PathReqInfoExtractor(r)
      [] fn = "SizeReqInfoExtractor" -> SizeReqInfoExtractor(r)

\* fn(ir) for a response extractor named fn
CallRespExtractor(fn, i) ==
    CASE fn = "StatusRespInfoExtractor" -> StatusRespInfoExtractor(i)
      [] fn = "SizeRespInfoExtractor" -> SizeRespInfoExtractor(i)

(***************************************************************************)
(* loggingBuilderImpl.  A slice is modelled by the sequence of its         *)
(* elements: append never writes below the length of the slice it is       *)
(* given and the Clear methods allocate, so no element a slice holds is    *)
(* ever overwritten through another slice.                                 *)
(***************************************************************************)
\* a builder that starts at Debug level with the response entry disabled
NewLoggingBuilder_quiet ==
    [l |-> "default", lvl |-> LevelDebug, respLog |-> FALSE, reqLog |-> TRUE,
     reqMsg |-> DefHttpReqMessage, respMsg |-> DefHttpRespMessage,
     reqInfoFns |-> DefaultReqInfoExtractors,
     respInfoFns |-> DefaultRespInfoExtractors]

NewLoggingBuilder ==
    [l |-> "default", lvl |-> LevelInfo, respLog |-> TRUE, reqLog |-> TRUE,
     reqMsg |-> DefHttpReqMessage, respMsg |-> DefHttpRespMessage,
     reqInfoFns |-> DefaultReqInfoExtractors,
     respInfoFns |-> DefaultRespInfoExtractors]

\* address of the builder NewLoggingBuilder returned
TheLoggingBuilder == 1

clone(b) ==
    [l |-> b.l, lvl |-> b.lvl, reqLog |-> b.reqLog, respLog |-> b.respLog,
     reqMsg |-> b.reqMsg, respMsg |-> b.respMsg,
     reqInfoFns |-> [k \in 1..Len(b.reqInfoFns) |-> b.reqInfoFns[k]],
     respInfoFns |-> [k \in 1..Len(b.respInfoFns) |-> b.respInfoFns[k]]]

ClearRequestInfoExtractors(b) == [b EXCEPT !.reqInfoFns = <<>>]
AddRequestInfoExtractors(b, extFns) == [b EXCEPT !.reqInfoFns = @ \o extFns]
ClearResponseInfoExtractors(b) == [b EXCEPT !.respInfoFns = <<>>]
AddResponseInfoExtractors(b, extFns) == [b EXCEPT !.respInfoFns = @ \o extFns]
WithRequestMessage(b, msg) == [b EXCEPT !.reqMsg = msg]
WithResponseMessage(b, msg) == [b EXCEPT !.respMsg = msg]
DisableResponseLog(b) == [b EXCEPT !.respLog = FALSE]
DisableRequestLog(b) == [b EXCEPT !.reqLog = FALSE]
WithLevel(b, level) == [b EXCEPT !.lvl = level]
WithLogger(b, logger) == [b EXCEPT !.l = logger]

\* Build() without the copy: the closure captures the builder itself
LoggingBuild_noclone(heap, l) == [heap |-> heap, mw |-> [c |-> l]]

\* Build(): c := l.clone() is a new object, and the closure captures c
LoggingBuild(heap, l) ==
    [heap |-> Append(heap, clone(heap[l])), mw |-> [c |-> Len(heap) + 1]]

RECURSIVE ReqArgs_reversed(_, _)
ReqArgs_reversed(fns, r) ==
    IF fns = <<>> THEN <<>>
    ELSE LET kv == CallReqExtractor(Head(fns), r)
         IN  ReqArgs_reversed(Tail(fns), r) \o <<kv[1], kv[2]>>

\* the loop of lines 219-224: args is k, v of every extractor, in list order
RECURSIVE ReqArgs(_, _)
ReqArgs(fns, r) ==
    IF fns = <<>> THEN <<>>
    ELSE LET kv == CallReqExtractor(Head(fns), r)
         IN  <<kv[1], kv[2]>> \o ReqArgs(Tail(fns), r)

RECURSIVE RespArgs_reversed(_, _, _)
RespArgs_reversed(fns, i, acc) ==
    IF fns = <<>> THEN [ir |-> i, args |-> acc]
    ELSE LET x == CallRespExtractor(Head(fns), i)
         IN  RespArgs_reversed(Tail(fns), x.ir, <<x.k, x.v>> \o acc)

\* the loop of lines 230-235, run on the interceptor i with acc collected
RECURSIVE RespArgs(_, _, _)
RespArgs(fns, i, acc) ==
    IF fns = <<>> THEN [ir |-> i, args |-> acc]
    ELSE LET x == CallRespExtractor(Head(fns), i)
         IN  RespArgs(Tail(fns), x.ir, acc \o <<x.k, x.v>>)

\* c.l.Log(ctx, c.lvl, msg, args...) made by the request step or the response step
LogCall(step, c, msg, args) ==
    [e |-> "log", step |-> step, l |-> c.l, lvl |-> c.lvl, msg |-> msg, args |-> args]

AfterRequestLog_intercept(respLog) == "ir"

\* if c.respLog {...} else {...}: the writer next.ServeHTTP is handed
AfterRequestLog(respLog) == IF respLog THEN "ir" ELSE "raw"

(***************************************************************************)
(* The handler Build() returns, logging.go:217-240, as the positions of    *)
(* one goroutine serving one request:                                      *)
(*   idle      before ServeHTTP is entered                                 *)
(*   dispatch  the request step (lines 218-226) is over                    *)
(*   handler   inside next.ServeHTTP                                       *)
(*   resplog   next.ServeHTTP(ir, r) returned, lines 230-236 come next     *)
(*   done      ServeHTTP returned                                          *)
(* respExt counts the response extractors called for the request.          *)
(***************************************************************************)
IdleLogReq ==
    [pc |-> "idle", mw |-> 0, r |-> NoRequest, w |-> NewSink, irs |-> <<>>,
     sink |-> "none", calls |-> 0, hsum |-> 0, respExt |-> 0, trace |-> <<>>]

InitLog ==
    /\ lbHeap = <<NewLoggingBuilder>>
    /\ lmw = <<>>
    /\ lbuilt = <<>>
    /\ lcalls = 0
    /\ lreq = [s \in Slots |-> IdleLogReq]

\* the configuration a middleware reads, through the pointer it captured
LCfg(m) == lbHeap[lmw[m].c]

\* a setter call on the builder, which puts nb in place of its fields
Setter(nb) ==
    /\ lcalls < MaxBuilderCalls
    /\ lcalls' = lcalls + 1
    /\ lbHeap' = [lbHeap EXCEPT ![TheLoggingBuilder] = nb]
    /\ UNCHANGED <<lmw, lbuilt, lreq, respVars, genVars, auxVars>>

CallWithLogger ==
    \E logger \in Loggers : Setter(WithLogger(lbHeap[TheLoggingBuilder], logger))

CallWithLevel ==
    \E level \in Levels : Setter(WithLevel(lbHeap[TheLoggingBuilder], level))

CallWithRequestMessage ==
    \E msg \in ReqMessages : Setter(WithRequestMessage(lbHeap[TheLoggingBuilder], msg))

CallWithResponseMessage ==
    \E msg \in RespMessages : Setter(WithResponseMessage(lbHeap[TheLoggingBuilder], msg))

CallDisableResponseLog == Setter(DisableResponseLog(lbHeap[TheLoggingBuilder]))

CallDisableRequestLog == Setter(DisableRequestLog(lbHeap[TheLoggingBuilder]))

CallClearRequestInfoExtractors ==
    Setter(ClearRequestInfoExtractors(lbHeap[TheLoggingBuilder]))

CallAddRequestInfoExtractors ==
    \E extFns \in ReqExtractorArgs :
        Setter(AddRequestInfoExtractors(lbHeap[TheLoggingBuilder], extFns))

CallClearResponseInfoExtractors ==
    Setter(ClearResponseInfoExtractors(lbHeap[TheLoggingBuilder]))

CallAddResponseInfoExtractors ==
    \E extFns \in RespExtractorArgs :
        Setter(AddResponseInfoExtractors(lbHeap[TheLoggingBuilder], extFns))

CallLoggingBuild ==
    /\ lcalls < MaxBuilderCalls
    /\ lcalls' = lcalls + 1
    /\ LET b == LoggingBuild(lbHeap, TheLoggingBuilder) IN
        /\ lbHeap' = b.heap
        /\ lmw' = Append(lmw, b.mw)
    /\ lbuilt' = Append(lbuilt, lbHeap[TheLoggingBuilder])
    /\ UNCHANGED <<lreq, respVars, genVars, auxVars>>

\* ServeHTTP(w, r) is entered; the request step, lines 218-226
LServe(s) ==
    /\ lreq[s].pc = "idle"
    /\ \E m \in 1..Len(lmw), r \in Requests :
        LET c == LCfg(m) IN
        lreq' = [lreq EXCEPT ![s] =
            [@ EXCEPT !.pc = "dispatch", !.mw = m, !.r = r,
                      !.trace = IF c.reqLog
                                THEN <<LogCall("req", c, c.reqMsg, ReqArgs(c.reqInfoFns, r))>>
                                ELSE <<>>]]
    /\ UNCHANGED <<lbHeap, lmw, lbuilt, lcalls, respVars, genVars, auxVars>>

\* lines 227-229 or 237-238: next.ServeHTTP is entered with ir or with w
LDispatch(s) ==
    /\ lreq[s].pc = "dispatch"
    /\ LET to == AfterRequestLog(LCfg(lreq[s].mw).respLog) IN
        lreq' = [lreq EXCEPT ![s] =
            [@ EXCEPT !.pc = "handler", !.sink = to,
                      !.irs = IF to = "ir" THEN <<NewRespInterceptor>> ELSE <<>>,
                      !.trace = @ \o NextServeHTTP(to, lreq[s].r)]]
    /\ UNCHANGED <<lbHeap, lmw, lbuilt, lcalls, respVars, genVars, auxVars>>

\* the handler calls Write; the sink takes all the bytes
LHandlerWrite(s) ==
    /\ lreq[s].pc = "handler"
    /\ lreq[s].calls < MaxHandlerCalls
    /\ \E size \in LogHandlerSizes :
        lreq' = [lreq EXCEPT ![s] = HandlerWrite(@, size, FALSE)]
    /\ UNCHANGED <<lbHeap, lmw, lbuilt, lcalls, respVars, genVars, auxVars>>

LHandlerWriteHeader(s) ==
    /\ lreq[s].pc = "handler"
    /\ lreq[s].calls < MaxHandlerCalls
    /\ \E statusCode \in LogHandlerStatusCodes :
        lreq' = [lreq EXCEPT ![s] = HandlerWriteHeader(@, statusCode)]
    /\ UNCHANGED <<lbHeap, lmw, lbuilt, lcalls, respVars, genVars, auxVars>>

\* next.ServeHTTP returns
LHandlerReturn(s) ==
    /\ lreq[s].pc = "handler"
    /\ lreq' = [lreq EXCEPT ![s] =
            [@ EXCEPT !.pc = IF lreq[s].sink = "ir" THEN "resplog" ELSE "done",
                      !.trace = Append(@, [e |-> "return", irs |-> lreq[s].irs])]]
    /\ UNCHANGED <<lbHeap, lmw, lbuilt, lcalls, respVars, genVars, auxVars>>

\* the response step, lines 230-236
LRespLog(s) ==
    /\ lreq[s].pc = "resplog"
    /\ LET c == LCfg(lreq[s].mw)
           x == RespArgs(c.respInfoFns, lreq[s].irs[1], <<>>)
       IN  lreq' = [lreq EXCEPT ![s] =
            [@ EXCEPT !.pc = "done", !.irs = <<x.ir>>,
                      !.respExt = @ + Len(c.respInfoFns),
                      !.trace = Append(@, LogCall("resp", c, c.respMsg, x.args))]]
    /\ UNCHANGED <<lbHeap, lmw, lbuilt, lcalls, respVars, genVars, auxVars>>

\* the goroutine takes the next request
LRecycle(s) ==
    /\ lreq[s].pc = "done"
    /\ lreq' = [lreq EXCEPT ![s] = IdleLogReq]
    /\ UNCHANGED <<lbHeap, lmw, lbuilt, lcalls, respVars, genVars, auxVars>>

NextLog ==
    \/ CallWithLogger
    \/ CallWithLevel
    \/ CallWithRequestMessage
    \/ CallWithResponseMessage
    \/ CallDisableResponseLog
    \/ CallDisableRequestLog
    \/ CallClearRequestInfoExtractors
    \/ CallAddRequestInfoExtractors
    \/ CallClearResponseInfoExtractors
    \/ CallAddResponseInfoExtractors
    \/ CallLoggingBuild
    \/ \E s \in Slots : LServe(s)
    \/ \E s \in Slots : LDispatch(s)
    \/ \E s \in Slots : LHandlerWrite(s)
    \/ \E s \in Slots : LHandlerWriteHeader(s)
    \/ \E s \in Slots : LHandlerReturn(s)
    \/ \E s \in Slots : LRespLog(s)
    \/ \E s \in Slots : LRecycle(s)


(***************************************************************************)
(* SpecDispatch: one goroutine serves requests through a middleware of     *)
(* either kind, one request at a time.  The interceptor middleware is      *)
(* configured by its filter, the logging middleware by the two Disable     *)
(* calls, so that both branches of each handler (part_001:126-134,         *)
(* logging.go:218-238) are taken.  The handlers are those of SpecGen and   *)
(* SpecLog; a request of one middleware starts and proceeds only while no  *)
(* request of the other is in progress.  The wrapped handler returns       *)
(* without writing: what it writes is the subject of SpecGen and SpecLog.  *)
(***************************************************************************)
GenQuiet == \A s \in Slots : greq[s].pc \in {"idle", "done"}
LogQuiet == \A s \in Slots : lreq[s].pc \in {"idle", "done"}

NextDispatch ==
    \/ CallWithRequestFilter
    \/ CallInterceptorBuild
    \/ CallDisableRequestLog
    \/ CallDisableResponseLog
    \/ CallLoggingBuild
    \/ LogQuiet /\ \E s \in Slots : GServe(s)
    \/ LogQuiet /\ \E s \in Slots : GBefore(s)
    \/ LogQuiet /\ \E s \in Slots : GDispatch(s)
    \/ LogQuiet /\ \E s \in Slots : GPass(s)
    \/ LogQuiet /\ \E s \in Slots : GHandlerReturn(s)
    \/ LogQuiet /\ \E s \in Slots : GAfter(s)
    \/ LogQuiet /\ \E s \in Slots : GRecycle(s)
    \/ GenQuiet /\ \E s \in Slots : LServe(s)
    \/ GenQuiet /\ \E s \in Slots : LDispatch(s)
    \/ GenQuiet /\ \E s \in Slots : LHandlerReturn(s)
    \/ GenQuiet /\ \E s \in Slots : LRespLog(s)
    \/ GenQuiet /\ \E s \in Slots : LRecycle(s)

(***************************************************************************)
(* SpecConc: two goroutines run the handlers Build() returned at the same  *)
(* time: the interceptor middleware of part_001:125-135 (kind "gen", with  *)
(* a filter that accepts and an after-callback that reads Status() and     *)
(* Written()) or the logging handler of logging.go:217-240 (kind "log",    *)
(* both entries enabled, the default response extractors).  conc.irs is    *)
(* the heap of respInterceptor objects, by address; a goroutine holds the  *)
(* address p of the one its call allocated.  Positions of a goroutine:     *)
(*   idle     before ServeHTTP is entered                                  *)
(*   handler  inside next.ServeHTTP(ir, r)                                 *)
(*   after    next.ServeHTTP returned                                      *)
(*   done     i.afterFn(ir) or the response Log call is over               *)
(* ops is what the goroutine's own handler called, seen what its           *)
(* after-callback or its response extractors read.                         *)
(***************************************************************************)
Goroutines == {"g1", "g2"}
MiddlewareKinds == {"gen", "log"}
ConcSizes == {2, 3}
ConcStatusCodes == {404, 500}

IdleConc == [pc |-> "idle", kind |-> "none", p |-> 0, w |-> NewSink,
             ops |-> <<>>, seen |-> <<>>]

\* one respInterceptor for every request handled, whichever goroutine asks
NewInterceptorObject_shared(heap) ==
    IF heap = <<>> THEN [heap |-> <<NewRespInterceptor>>, p |-> 1]
    ELSE [heap |-> heap, p |-> 1]

\* ir := &respInterceptor{delegate: w, req: r}: a new object on every call
NewInterceptorObject(heap) ==
    [heap |-> Append(heap, NewRespInterceptor), p |-> Len(heap) + 1]

InitConc == conc = [irs |-> <<>>, g |-> [x \in Goroutines |-> IdleConc]]

\* ServeHTTP(w, r) is entered and gets as far as calling next.ServeHTTP(ir, r)
CServe(x) ==
    /\ conc.g[x].pc = "idle"
    /\ \E kind \in MiddlewareKinds :
        LET a == NewInterceptorObject(conc.irs) IN
        conc' = [irs |-> a.heap,
                 g |-> [conc.g EXCEPT ![x] =
                          [@ EXCEPT !.pc = "handler", !.kind = kind, !.p = a.p]]]
    /\ UNCHANGED <<respVars, genVars, logVars, chk, run, out>>

\* the handler calls ir.Write; its sink takes all the bytes
CHandlerWrite(x) ==
    /\ conc.g[x].pc = "handler"
    /\ Len(conc.g[x].ops) < MaxHandlerCalls
    /\ \E size \in ConcSizes :
        LET q == conc.g[x]
            r == Write(conc.irs[q.p], q.w, size, FALSE)
        IN  conc' = [irs |-> [conc.irs EXCEPT ![q.p] = r.ir],
                     g |-> [conc.g EXCEPT ![x] =
                              [@ EXCEPT !.w = r.w,
                                        !.ops = Append(@, <<"Write", size>>)]]]
    /\ UNCHANGED <<respVars, genVars, logVars, chk, run, out>>

\* the handler calls ir.WriteHeader
CHandlerWriteHeader(x) ==
    /\ conc.g[x].pc = "handler"
    /\ Len(conc.g[x].ops) < MaxHandlerCalls
    /\ \E statusCode \in ConcStatusCodes :
        LET q == conc.g[x]
            r == WriteHeader(conc.irs[q.p], q.w, statusCode)
        IN  conc' = [irs |-> [conc.irs EXCEPT ![q.p] = r.ir],
                     g |-> [conc.g EXCEPT ![x] =
                              [@ EXCEPT !.w = r.w,
                                        !.ops = Append(@, <<"WriteHeader", statusCode>>)]]]
    /\ UNCHANGED <<respVars, genVars, logVars, chk, run, out>>

\* next.ServeHTTP returns
CHandlerReturn(x) ==
    /\ conc.g[x].pc = "handler"
    /\ conc' = [conc EXCEPT !.g[x].pc = "after"]
    /\ UNCHANGED <<respVars, genVars, logVars, chk, run, out>>

\* i.afterFn(ir) reads Status() and Written(); the response step runs the
\* response extractors on ir
CAfter(x) ==
    /\ conc.g[x].pc = "after"
    /\ LET q == conc.g[x]
           i == conc.irs[q.p]
       IN  IF q.kind = "gen"
           THEN LET st == Status(i) IN
                conc' = [irs |-> [conc.irs EXCEPT ![q.p] = st.ir],
                         g |-> [conc.g EXCEPT ![x] =
                                  [@ EXCEPT !.pc = "done",
                                            !.seen = <<"status", AnyInt(st.val),
                                                       "body_size", AnyInt(Written(st.ir))>>]]]
           ELSE LET a == RespArgs(DefaultRespInfoExtractors, i, <<>>) IN
                conc' = [irs |-> [conc.irs EXCEPT ![q.p] = a.ir],
                         g |-> [conc.g EXCEPT ![x] =
                                  [@ EXCEPT !.pc = "done", !.seen = a.args]]]
    /\ UNCHANGED <<respVars, genVars, logVars, chk, run, out>>

NextConc ==
    \/ \E x \in Goroutines : CServe(x)
    \/ \E x \in Goroutines : CHandlerWrite(x)
    \/ \E x \in Goroutines : CHandlerWriteHeader(x)
    \/ \E x \in Goroutines : CHandlerReturn(x)
    \/ \E x \in Goroutines : CAfter(x)

(***************************************************************************)
(* SpecCheck: a caller fills in a ServerConfig and calls Check on it.  A   *)
(* pointer field is the empty sequence when nil and a one-element sequence *)
(* holding the pointed-to struct otherwise; an error is named by the       *)
(* package variable that holds it, "nil" when nil.  chk.before is the      *)
(* config as the last Check call found it, chk.ret what that call          *)
(* returned.                                                               *)
(***************************************************************************)
ErrListenAddressMissing == "ErrListenAddressMissing"
ErrCorsBadMaxAge == "ErrCorsBadMaxAge"
DefaultMetricPath == "/metrics"

ListenAddresses == {"", ":8080", "127.0.0.1:0"}
CorsConfigs == {<<>>} \cup {<<[MaxAge |-> a]>> : a \in {-1, 0, 600}}
TelemetryConfigs ==
    {<<>>} \cup {<<[Enabled |-> e, Path |-> p]>> :
                    e \in BOOLEAN, p \in {"", DefaultMetricPath, "/prom"}}

ZeroServerConfig == [ListenAddress |-> "", Cors |-> <<>>, Telemetry |-> <<>>]

\* Check() that looks at the listen address before the CORS section
Check_listenFirst(s) ==
    IF s.ListenAddress = ""
    THEN [s |-> s, err |-> ErrListenAddressMissing]
    ELSE IF s.Cors # <<>> /\ s.Cors[1].MaxAge < 0
         THEN [s |-> s, err |-> ErrCorsBadMaxAge]
         ELSE [s |-> IF s.Telemetry # <<>> /\ s.Telemetry[1].Path = ""
                     THEN [s EXCEPT !.Telemetry[1].Path = DefaultMetricPath]
                     ELSE s,
               err |-> "nil"]

\* Check() that leaves the telemetry path alone
Check_noDefault(s) ==
    IF s.Cors # <<>> /\ s.Cors[1].MaxAge < 0
    THEN [s |-> s, err |-> ErrCorsBadMaxAge]
    ELSE [s |-> s,
          err |-> IF s.ListenAddress = "" THEN ErrListenAddressMissing ELSE "nil"]

\* Check(): s is the receiver's struct; returns it as the call leaves it, and
\* the error
Check(s) ==
    IF s.Cors # <<>> /\ s.Cors[1].MaxAge < 0
    THEN [s |-> s, err |-> ErrCorsBadMaxAge]
    ELSE LET t == IF s.Telemetry # <<>> /\ s.Telemetry[1].Path = ""
                  THEN [s EXCEPT !.Telemetry[1].Path = DefaultMetricPath]
                  ELSE s
         IN  [s |-> t,
              err |-> IF t.ListenAddress = "" THEN ErrListenAddressMissing ELSE "nil"]

InitCheck ==
    chk = [pc |-> "idle", cfg |-> ZeroServerConfig, before |-> ZeroServerConfig,
           ret |-> "none"]

\* c := &ServerConfig{...}
NewServerConfig ==
    /\ chk.pc = "idle"
    /\ \E la \in ListenAddresses, cors \in CorsConfigs, tel \in TelemetryConfigs :
        chk' = [chk EXCEPT !.pc = "built",
                           !.cfg = [ListenAddress |-> la, Cors |-> cors, Telemetry |-> tel]]
    /\ UNCHANGED <<respVars, genVars, logVars, conc, run, out>>

\* c.Check()
CallCheck ==
    /\ chk.pc \in {"built", "checked"}
    /\ LET r == Check(chk.cfg) IN
        chk' = [pc |-> "checked", cfg |-> r.s, before |-> chk.cfg, ret |-> r.err]
    /\ UNCHANGED <<respVars, genVars, logVars, conc, run, out>>

\* the caller drops the config and starts over
DropServerConfig ==
    /\ chk.pc = "checked"
    /\ chk' = [pc |-> "idle", cfg |-> ZeroServerConfig, before |-> ZeroServerConfig,
               ret |-> "none"]
    /\ UNCHANGED <<respVars, genVars, logVars, conc, run, out>>

NextCheck ==
    \/ NewServerConfig
    \/ CallCheck
    \/ DropServerConfig

(***************************************************************************)
(* SpecRun: one call of RunUntil(srv, stopCh) or RunForever(srv), the      *)
(* goroutine it starts and the owner of the stop channel.  Positions of    *)
(* the calling goroutine (run.pc):                                         *)
(*   idle      RunUntil not called yet                                     *)
(*   listen    lines 125-136 are over, net.Listen comes next               *)
(*   go        net.Listen succeeded, the go statement comes next           *)
(*   wait      at <-stopCh                                                 *)
(*   close     the receive returned, l.Close() comes next                  *)
(*   return    l.Close() is over, return err comes next                    *)
(*   returned  RunUntil returned run.ret                                   *)
(* run.serve is the started goroutine: "none", "serving" inside http.Serve *)
(* or http.ServeTLS, "exited" once it has assigned err.  run.err is the    *)
(* variable err both goroutines share, run.l the listener, run.stop the    *)
(* stop channel.                                                           *)
(***************************************************************************)
\* a *time.Duration field of the config: nil (the empty sequence) or set
Timeouts == {<<>>, <<30>>}
\* the TLS section: nil, or the two file names
TLSConfigs ==
    {<<>>, <<[CertFile |-> "", KeyFile |-> ""]>>,
     <<[CertFile |-> "cert.pem", KeyFile |-> ""]>>,
     <<[CertFile |-> "cert.pem", KeyFile |-> "key.pem"]>>}
\* what http.Serve and http.ServeTLS return; they never return nil
ServeErrors == {"listener closed", "serve failed"}

isTls(s) == IF s.TLS = <<>> THEN FALSE
            ELSE s.TLS[1].CertFile # "" /\ s.TLS[1].KeyFile # ""

\* a receive that does not wait for the channel to be closed
StopReceived_noWait(stop) == TRUE

\* <-stopCh returns once the channel is closed; nothing is ever sent on it
StopReceived(stop) == stop = "closed"

\* lines 125-136: a timeout the config sets replaces the server's
ApplyTimeout(cfgT, srvT) == IF cfgT # <<>> THEN cfgT[1] ELSE srvT

IdleRun ==
    [pc |-> "idle", forever |-> FALSE,
     s |-> [TLS |-> <<>>, ReadHeaderTimeout |-> <<>>, ReadTimeout |-> <<>>,
            IdleTimeout |-> <<>>, WriteTimeout |-> <<>>],
     srv |-> [ReadHeaderTimeout |-> 0, ReadTimeout |-> 0, IdleTimeout |-> 0,
              WriteTimeout |-> 0],
     l |-> "none", listened |-> FALSE, stop |-> "open", serve |-> "none",
     tls |-> FALSE, err |-> "nil", ret |-> "none"]

InitRun == run = IdleRun

\* RunUntil(srv, stopCh) or RunForever(srv) is called and copies the timeouts;
\* RunForever passes make(chan struct{}), a new channel nobody else holds
CallRun ==
    /\ run.pc = "idle"
    /\ \E forever \in BOOLEAN, tls \in TLSConfigs, rht \in Timeouts, rt \in Timeouts,
          it \in Timeouts, wt \in Timeouts :
        run' = [run EXCEPT
                   !.pc = "listen", !.forever = forever,
                   !.stop = IF forever THEN "open" ELSE @,
                   !.s = [TLS |-> tls, ReadHeaderTimeout |-> rht, ReadTimeout |-> rt,
                          IdleTimeout |-> it, WriteTimeout |-> wt],
                   !.srv = [ReadHeaderTimeout |-> ApplyTimeout(rht, @.ReadHeaderTimeout),
                            ReadTimeout |-> ApplyTimeout(rt, @.ReadTimeout),
                            IdleTimeout |-> ApplyTimeout(it, @.IdleTimeout),
                            WriteTimeout |-> ApplyTimeout(wt, @.WriteTimeout)]]
    /\ UNCHANGED <<respVars, genVars, logVars, conc, chk, out>>

\* l, err = net.Listen("tcp", s.ListenAddress)
RListen ==
    /\ run.pc = "listen"
    /\ \/ run' = [run EXCEPT !.pc = "go", !.l = "open", !.listened = TRUE]
       \/ run' = [run EXCEPT !.pc = "returned", !.err = "listen failed",
                             !.ret = "listen failed"]
    /\ UNCHANGED <<respVars, genVars, logVars, conc, chk, out>>

\* go func() {...}()
RGo ==
    /\ run.pc = "go"
    /\ run' = [run EXCEPT !.pc = "wait", !.serve = "serving", !.tls = isTls(run.s)]
    /\ UNCHANGED <<respVars, genVars, logVars, conc, chk, out>>

\* <-stopCh
RReceive ==
    /\ run.pc = "wait"
    /\ StopReceived(run.stop)
    /\ run' = [run EXCEPT !.pc = "close"]
    /\ UNCHANGED <<respVars, genVars, logVars, conc, chk, out>>

\* _ = l.Close()
RClose ==
    /\ run.pc = "close"
    /\ run' = [run EXCEPT !.pc = "return", !.l = "closed"]
    /\ UNCHANGED <<respVars, genVars, logVars, conc, chk, out>>

\* return err: the read of err is not ordered with the goroutine's write, so
\* once the goroutine has written the caller may get the old value, the new
\* one, or a mix of the two words of the interface value
RReturn ==
    /\ run.pc = "return"
    /\ \E v \in (IF run.serve = "exited" THEN {"nil", run.err, "torn"} ELSE {run.err}) :
        run' = [run EXCEPT !.pc = "returned", !.ret = v]
    /\ UNCHANGED <<respVars, genVars, logVars, conc, chk, out>>

\* err = http.Serve(...) or err = http.ServeTLS(...): Serve returns when the
\* listener is closed, or earlier when accepting or loading the key pair fails
ServeExit ==
    /\ run.serve = "serving"
    /\ \E e \in ServeErrors :
        /\ e = "listener closed" => run.l = "closed"
        /\ run' = [run EXCEPT !.serve = "exited", !.err = e]
    /\ UNCHANGED <<respVars, genVars, logVars, conc, chk, out>>

\* the owner of the stop channel closes it; RunForever's channel has no owner
CloseStop ==
    /\ ~run.forever
    /\ run.stop = "open"
    /\ run' = [run EXCEPT !.stop = "closed"]
    /\ UNCHANGED <<respVars, genVars, logVars, conc, chk, out>>

NextRun ==
    \/ CallRun
    \/ RListen
    \/ RGo
    \/ RReceive
    \/ RClose
    \/ RReturn
    \/ ServeExit
    \/ CloseStop

\* a goroutine that can take its next step is scheduled eventually
RunFairness ==
    /\ WF_vars(RListen)
    /\ WF_vars(RGo)
    /\ WF_vars(RReceive)
    /\ WF_vars(RClose)
    /\ WF_vars(RReturn)

(***************************************************************************)
(* SpecOut: the output package.  A caller configures the builder           *)
(* NewBuilder returned, builds an Interface from it and sends values       *)
(* through the Interface.  A function value is modelled by its name; an    *)
(* ErrorMapper is known by the errors it says it handled.  A slice is the  *)
(* sequence of its elements: append never writes below the length of the   *)
(* slice it is given, so the ems of a built Interface never change.        *)
(* out.b is the builder, out.impl the builder inside the Interface last    *)
(* built (none yet: the empty sequence), out.sent the last send: its       *)
(* arguments, the ems it ran with, and the calls it made, in order.        *)
(***************************************************************************)
ErrorMappers == {"mapNone", "mapNotFound", "mapAll"}
Errors == {"not found", "boom"}
\* the values v passed to SendWithStatus: an error or something else
SentValues == {<<"error", e>> : e \in Errors} \cup {<<"object", "item">>}
SendStatusCodes == {404, 500}
ContentTypes == {"application/json", "text/plain"}
StatusInternalServerError == 500

\* em(w, err) of the mapper named em
MapperHandles(em, err) ==
    \/ em = "mapAll"
    \/ em = "mapNotFound" /\ err = "not found"

\* a call SendWithStatus makes
OutCall(e, k, m, ok, status) == [e |-> e, k |-> k, m |-> m, ok |-> ok, status |-> status]

\* the loop over i.ems without the return
RECURSIVE MapErrors_noStop(_, _, _, _)
MapErrors_noStop(ems, k, err, status) ==
    IF k > Len(ems)
    THEN <<OutCall("http.Error", 0, err, FALSE, status)>>
    ELSE <<OutCall("mapper", k, ems[k], MapperHandles(ems[k], err), 0)>>
             \o MapErrors_noStop(ems, k + 1, err, status)

\* lines 91-98: the calls made from the k-th mapper on, then http.Error
RECURSIVE MapErrors(_, _, _, _)
MapErrors(ems, k, err, status) ==
    IF k > Len(ems)
    THEN <<OutCall("http.Error", 0, err, FALSE, status)>>
    ELSE <<OutCall("mapper", k, ems[k], MapperHandles(ems[k], err), 0)>>
             \o (IF MapperHandles(ems[k], err) THEN <<>>
                 ELSE MapErrors(ems, k + 1, err, status))

\* SendWithStatus(w, v, status) on the Interface holding builder i; encErr
\* says whether i.encFn(w, v) returns an error
SendWithStatus(i, v, status, encErr) ==
    <<OutCall("Header.Set", 0, i.ct, FALSE, 0), OutCall("WriteHeader", 0, "", FALSE, status)>>
        \o (IF v[1] = "error"
            THEN MapErrors(i.ems, 1, v[2], status)
            ELSE <<OutCall("encFn", 0, i.encFn, ~encErr, 0)>>
                     \o (IF encErr
                         THEN <<OutCall("http.Error", 0, "encode failed", FALSE,
                                        StatusInternalServerError)>>
                         ELSE <<>>))

\* SendBytes(w, data)
SendBytes(i) ==
    <<OutCall("Header.Set", 0, i.ct, FALSE, 0), OutCall("Write", 0, "", FALSE, 0)>>

NewBuilder == [encFn |-> "defaultJsonEncoder", ct |-> "application/json", ems |-> <<>>]

WithErrorMapper(b, mapper) == [b EXCEPT !.ems = Append(@, mapper)]

WithEncoder(b, ct, encFunc) == [b EXCEPT !.ct = ct, !.encFn = encFunc]

\* Build(): a new builder holding the three fields of b
OutputBuild(b) == [encFn |-> b.encFn, ct |-> b.ct, ems |-> b.ems]

NoSend == [op |-> "none", v |-> <<"none", "">>, status |-> 0, ems |-> <<>>, calls |-> <<>>]

InitOut == out = [b |-> NewBuilder, impl |-> <<>>, sent |-> NoSend]

CallWithErrorMapper ==
    /\ Len(out.b.ems) < MaxMappers
    /\ \E mapper \in ErrorMappers :
        out' = [out EXCEPT !.b = WithErrorMapper(@, mapper)]
    /\ UNCHANGED <<respVars, genVars, logVars, conc, chk, run>>

CallWithEncoder ==
    /\ \E ct \in ContentTypes :
        out' = [out EXCEPT !.b = WithEncoder(@, ct, "encoder of " \o ct)]
    /\ UNCHANGED <<respVars, genVars, logVars, conc, chk, run>>

CallOutputBuild ==
    /\ out' = [out EXCEPT !.impl = <<OutputBuild(out.b)>>]
    /\ UNCHANGED <<respVars, genVars, logVars, conc, chk, run>>

CallSendWithStatus ==
    /\ out.impl # <<>>
    /\ \E v \in SentValues, status \in SendStatusCodes, encErr \in BOOLEAN :
        out' = [out EXCEPT !.sent =
                   [op |-> "SendWithStatus", v |-> v, status |-> status,
                    ems |-> out.impl[1].ems,
                    calls |-> SendWithStatus(out.impl[1], v, status, encErr)]]
    /\ UNCHANGED <<respVars, genVars, logVars, conc, chk, run>>

CallSendBytes ==
    /\ out.impl # <<>>
    /\ out' = [out EXCEPT !.sent =
                   [op |-> "SendBytes", v |-> <<"bytes", "">>, status |-> 0,
                    ems |-> out.impl[1].ems, calls |-> SendBytes(out.impl[1])]]
    /\ UNCHANGED <<respVars, genVars, logVars, conc, chk, run>>

NextOut ==
    \/ CallWithErrorMapper
    \/ CallWithEncoder
    \/ CallOutputBuild
    \/ CallSendWithStatus
    \/ CallSendBytes


Init == InitResp /\ InitGen /\ InitLog /\ InitConc /\ InitCheck /\ InitRun /\ InitOut

SpecResp == Init /\ [][NextResp]_vars

SpecGen == Init /\ [][NextGen]_vars

SpecLog == Init /\ [][NextLog]_vars

SpecConc == Init /\ [][NextConc]_vars

SpecPanic == Init /\ [][NextPanic]_vars

SpecDispatch == Init /\ [][NextDispatch]_vars

SpecCheck == Init /\ [][NextCheck]_vars

SpecRun == Init /\ [][NextRun]_vars

SpecRunFair == SpecRun /\ RunFairness

SpecOut == Init /\ [][NextOut]_vars

\* Init with the sink of SpecHijack in place of the plain one
HijackInit ==
    InitHijack /\ InitGen /\ InitLog /\ InitConc /\ InitCheck /\ InitRun /\ InitOut

SpecHijack == HijackInit /\ [][NextHijack]_vars

(***************************************************************************)
(* Claims about respInterceptor, checked under SpecResp.                   *)
(***************************************************************************)

\* C1: once the first WriteHeader has set the status, Status() keeps
\* returning that value after every later WriteHeader or Write call.
C1_StatusSetOnce ==
    obs.firstStatus # 0 => Status(ir).val = obs.firstStatus

\* C2: the real sink receives at most one WriteHeader call through the
\* interceptor, however many times the handler calls WriteHeader.
C2_DelegateHeaderAtMostOnce ==
    Len(w.headerCalls) <= 1

\* C5: when the real sink accepted every write in full, Written() is the
\* sum of the lengths written, whatever WriteHeader calls came in between;
\* and Written() never decreases.
C5_WrittenIsSum ==
    /\ [](obs.full => Written(ir) = obs.asked)
    /\ [][Written(ir') >= Written(ir)]_vars

\* two or more writes summing to 5, with a WriteHeader among the calls
C5_Witness ==
    /\ obs.full
    /\ obs.writes >= 2
    /\ obs.hdrCalls >= 1
    /\ Written(ir) = 5

\* C6: if WriteHeader was never called, Status() returns 200 however many
\* Write calls were made.
C6_DefaultStatus ==
    obs.hdrCalls = 0 =>
        /\ Status(ir).val = StatusOK
        /\ obs.ret.op = "Status" => obs.ret.val = StatusOK

\* "ab" then "cde" written, no WriteHeader, and Status() has returned 200
C6_Witness ==
    /\ obs.hdrCalls = 0
    /\ obs.writes = 2
    /\ Written(ir) = 5
    /\ obs.ret.op = "Status"
    /\ obs.ret.val = StatusOK

(***************************************************************************)
(* Claims about the generic interceptor middleware, checked under SpecGen. *)
(***************************************************************************)
Kinds(t) == [k \in 1..Len(t) |-> t[k].e]

IsPrefix(a, b) == Len(a) <= Len(b) /\ \A k \in 1..Len(a) : a[k] = b[k]

\* C3: a built middleware keeps using the filter and the callbacks the
\* builder held when Build() returned, whatever setters are called later.
C3_BuiltConfigFrozen ==
    \A s \in Slots :
        \A k \in 1..Len(greq[s].trace) :
            LET ev == greq[s].trace[k]
                c == ibuilt[greq[s].mw]
            IN  /\ ev.e = "filter" => ev.fn = c.filterFn
                /\ ev.e = "bcb" => ev.fn = c.bcb
                /\ ev.e = "cb" => ev.fn = c.cb

\* C7: when the filter returns false for a request, no callback is invoked,
\* no respInterceptor is created, and the wrapped handler is called with the
\* original response writer and the original request.
C7_FilteredPassThrough ==
    \A s \in Slots :
        LET q == greq[s]
            t == q.trace
        IN  (Len(t) > 0 /\ ~t[1].res) =>
                /\ \A k \in 1..Len(t) : t[k].e \notin {"bcb", "cb"}
                /\ q.irs = <<>>
                /\ q.sink \in {"none", "raw"}
                /\ \A k \in 1..Len(t) :
                       t[k].e = "next" => (t[k].sink = "raw" /\ t[k].r = q.r)
                /\ q.pc = "done" => Kinds(t) = <<"filter", "next", "return">>

\* a POST rejected by the getOnly filter was served: the handler wrote to
\* the server's own writer
C7_Witness ==
    \E s \in Slots :
        /\ greq[s].pc = "done"
        /\ ~greq[s].trace[1].res
        /\ greq[s].calls = 2
        /\ greq[s].w.body = 5
        /\ Len(greq[s].w.headerCalls) = 0

\* C10: when the filter returns true, the middleware calls, once each and in
\* this order, the before-callback with the request, the wrapped handler
\* with a fresh respInterceptor, and after the handler returned the
\* after-callback with that interceptor, which shows the status and the
\* byte count the handler left.
C10_InterceptOrder ==
    \A s \in Slots :
        LET q == greq[s]
            t == q.trace
        IN  (Len(t) > 0 /\ t[1].res) =>
                /\ IsPrefix(Kinds(t), <<"filter", "bcb", "next", "return", "cb">>)
                /\ q.pc = "done" => Len(t) = 5
                /\ Len(t) >= 2 => t[2].r = q.r
                /\ Len(t) >= 3 => (t[3].sink = "ir" /\ t[3].r = q.r)
                /\ (q.pc = "handler" /\ q.calls = 0) => q.irs = <<NewRespInterceptor>>
                /\ Len(t) >= 5 =>
                       /\ t[5].status = Status(t[4].irs[1]).val
                       /\ t[5].written = Written(t[4].irs[1])
                       /\ t[5].written = q.hsum

\* a request went through all five steps; the handler set 404 and wrote 5 bytes
C10_Witness ==
    \E s \in Slots :
        /\ greq[s].pc = "done"
        /\ Len(greq[s].trace) = 5
        /\ greq[s].trace[2].fn = "bcb1"
        /\ greq[s].trace[5].fn = "cb1"
        /\ greq[s].trace[5].status = 404
        /\ greq[s].trace[5].written = 3

(***************************************************************************)
(* Claims about the logging middleware, checked under SpecLog.             *)
(***************************************************************************)
\* the log calls of a trace made by the given step, in order
RECURSIVE LogCallsOf(_, _)
LogCallsOf(t, step) ==
    IF t = <<>> THEN <<>>
    ELSE IF Head(t).e = "log" /\ Head(t).step = step
         THEN <<Head(t)>> \o LogCallsOf(Tail(t), step)
         ELSE LogCallsOf(Tail(t), step)

\* args is the label and the value of each request extractor of fns, in order
IsReqFieldsOf(args, fns, r) ==
    /\ Len(args) = 2 * Len(fns)
    /\ \A k \in 1..Len(fns) :
        /\ args[2 * k - 1] = CallReqExtractor(fns[k], r)[1]
        /\ args[2 * k] = CallReqExtractor(fns[k], r)[2]

\* C4: a built logging handler keeps the level, the messages, the enable
\* flags and both extractor lists the builder held when Build() returned,
\* whatever is called on the builder afterwards.
C4_CopyOnBuild ==
    /\ \A m \in 1..Len(lmw) :
        LET c == LCfg(m)
            b == lbuilt[m]
        IN  /\ c.lvl = b.lvl
            /\ c.reqMsg = b.reqMsg
            /\ c.respMsg = b.respMsg
            /\ c.reqLog = b.reqLog
            /\ c.respLog = b.respLog
            /\ c.reqInfoFns = b.reqInfoFns
            /\ c.respInfoFns = b.respInfoFns
    /\ \A s \in Slots :
        LET q == lreq[s]
            t == q.trace
        IN  q.pc # "idle" =>
            LET b == lbuilt[q.mw] IN
                /\ Len(LogCallsOf(t, "req")) = (IF b.reqLog THEN 1 ELSE 0)
                /\ q.sink # "none" => (q.sink = "ir" <=> b.respLog)
                /\ q.pc = "done" =>
                       Len(LogCallsOf(t, "resp")) = (IF b.respLog THEN 1 ELSE 0)
                /\ \A k \in 1..Len(t) :
                       t[k].e = "log" =>
                           /\ t[k].lvl = b.lvl
                           /\ t[k].step = "req" =>
                                  /\ t[k].msg = b.reqMsg
                                  /\ Len(t[k].args) = 2 * Len(b.reqInfoFns)
                           /\ t[k].step = "resp" =>
                                  /\ t[k].msg = b.respMsg
                                  /\ Len(t[k].args) = 2 * Len(b.respInfoFns)

\* a handler built from the defaults served a request after the builder's
\* request message was changed and its request extractors were cleared
C4_Witness ==
    \E s \in Slots :
        /\ lreq[s].pc = "done"
        /\ lbHeap[TheLoggingBuilder].reqMsg = "request in"
        /\ lbHeap[TheLoggingBuilder].reqInfoFns = <<>>
        /\ lreq[s].trace[1].msg = DefHttpReqMessage
        /\ Len(lreq[s].trace[1].args) = 6

\* C8: a handler built with response logging disabled calls no response
\* extractor and makes no response log call, hands the wrapped handler the
\* server's own writer, and still makes the request log call when request
\* logging is enabled.
C8_ResponseLogDisabled ==
    \A s \in Slots :
        LET q == lreq[s]
            t == q.trace
        IN  (q.pc # "idle" /\ ~lbuilt[q.mw].respLog) =>
                /\ q.respExt = 0
                /\ LogCallsOf(t, "resp") = <<>>
                /\ q.irs = <<>>
                /\ q.sink \in {"none", "raw"}
                /\ \A k \in 1..Len(t) : t[k].e = "next" => t[k].sink = "raw"
                /\ lbuilt[q.mw].reqLog =>
                       /\ Len(LogCallsOf(t, "req")) = 1
                       /\ t[1].e = "log"
                       /\ t[1].step = "req"
                /\ q.pc = "done" =>
                       Kinds(t) = (IF lbuilt[q.mw].reqLog
                                   THEN <<"log", "next", "return">>
                                   ELSE <<"next", "return">>)

\* response logging off, request logging on: the request was logged and
\* the handler wrote 5 bytes to the server's writer
C8_Witness ==
    \E s \in Slots :
        /\ lreq[s].pc = "done"
        /\ ~lbuilt[lreq[s].mw].respLog
        /\ lbuilt[lreq[s].mw].reqLog
        /\ Kinds(lreq[s].trace) = <<"log", "next", "return">>
        /\ lreq[s].calls = 2
        /\ lreq[s].w.body = 5

\* C9: with request logging enabled a request gives exactly one request log
\* call, at the configured level and with the configured request message,
\* whose arguments are the label and the value of each request extractor in
\* list order, duplicates included, and none for an empty list.
C9_RequestLogFields ==
    \A s \in Slots :
        LET q == lreq[s]
            t == q.trace
        IN  (q.pc # "idle" /\ lbuilt[q.mw].reqLog) =>
                /\ Len(LogCallsOf(t, "req")) = 1
                /\ t[1].e = "log"
                /\ t[1].step = "req"
                /\ t[1].l = lbuilt[q.mw].l
                /\ t[1].lvl = lbuilt[q.mw].lvl
                /\ t[1].msg = lbuilt[q.mw].reqMsg
                /\ IsReqFieldsOf(t[1].args, lbuilt[q.mw].reqInfoFns, q.r)

\* extractors [method, path], request GET /health
C9_Witness ==
    \E s \in Slots :
        /\ lreq[s].pc = "done"
        /\ lbuilt[lreq[s].mw].reqInfoFns =
               <<"MethodReqInfoExtractor", "PathReqInfoExtractor">>
        /\ lreq[s].trace[1].args =
               <<"method", AnyString("GET"), "path", AnyString("/health")>>

(***************************************************************************)
(* The steps of one request through the logging handler.                   *)
(***************************************************************************)
\* the steps a request has taken, by name
StepsOf(t) ==
    [k \in 1..Len(t) |->
        IF t[k].e = "log"
        THEN (IF t[k].step = "req" THEN "RequestLogged" ELSE "ResponseLogged")
        ELSE (IF t[k].e = "next" THEN "Dispatched" ELSE "Returned")]

\* the steps of a whole request under the two enable flags
StepsFor(reqLog, respLog) ==
    (IF reqLog THEN <<"RequestLogged">> ELSE <<>>)
        \o <<"Dispatched", "Returned">>
        \o (IF respLog THEN <<"ResponseLogged">> ELSE <<>>)

\* args is the label and the value of each response extractor of fns, in
\* order, read from the interceptor i as the handler left it
IsRespFieldsOf(args, fns, i) ==
    /\ Len(args) = 2 * Len(fns)
    /\ \A k \in 1..Len(fns) :
        IF fns[k] = "StatusRespInfoExtractor"
        THEN /\ args[2 * k - 1] = "status"
             /\ args[2 * k] = AnyInt(IF i.status = 0 THEN StatusOK ELSE i.status)
        ELSE /\ args[2 * k - 1] = "body_size"
             /\ args[2 * k] = AnyInt(i.written)

\* C11: under each of the four settings of the request-log and response-log
\* flags a request goes Idle, RequestLogged (if enabled), Dispatched,
\* Returned, ResponseLogged (if enabled), Done and takes no other step: the
\* request entry is logged before the handler is invoked, the response entry
\* only after the handler returned, with the fields of the response
\* extractors in list order read from the interceptor the handler filled,
\* and no entry of either kind is logged twice for one request.
C11_LoggingStepOrder ==
    \A s \in Slots :
        LET q == lreq[s]
            t == q.trace
        IN  q.pc # "idle" =>
            LET b == lbuilt[q.mw]
                want == StepsFor(b.reqLog, b.respLog)
            IN  /\ IsPrefix(StepsOf(t), want)
                /\ q.pc = "done" => StepsOf(t) = want
                /\ q.pc \in {"dispatch", "handler"} =>
                        \A k \in 1..Len(t) : StepsOf(t)[k] # "Returned"
                /\ Len(LogCallsOf(t, "req")) <= 1
                /\ Len(LogCallsOf(t, "resp")) <= 1
                /\ \A k \in 1..Len(t) :
                        StepsOf(t)[k] = "ResponseLogged" =>
                            /\ k > 1
                            /\ t[k - 1].e = "return"
                            /\ t[k - 1].irs # <<>>
                            /\ t[k].msg = b.respMsg
                            /\ IsRespFieldsOf(t[k].args, b.respInfoFns, t[k - 1].irs[1])

\* a request both of whose entries were logged, the handler having written
\* 404 and then three bytes in between
C11_Witness ==
    \E s \in Slots :
        /\ lreq[s].pc = "done"
        /\ lbuilt[lreq[s].mw].respInfoFns = DefaultRespInfoExtractors
        /\ StepsOf(lreq[s].trace) =
               <<"RequestLogged", "Dispatched", "Returned", "ResponseLogged">>
        /\ lreq[s].trace[4].args = <<"status", AnyInt(404), "body_size", AnyInt(3)>>

(***************************************************************************)
(* Claims about requests served at the same time, checked under SpecConc.  *)
(***************************************************************************)
\* what a handler making the calls ops leaves in an interceptor nobody
\* else touches
RECURSIVE Alone(_, _, _)
Alone(ops, i, d) ==
    IF ops = <<>> THEN i
    ELSE IF Head(ops)[1] = "Write"
         THEN LET r == Write(i, d, Head(ops)[2], FALSE) IN Alone(Tail(ops), r.ir, r.w)
         ELSE LET r == WriteHeader(i, d, Head(ops)[2]) IN Alone(Tail(ops), r.ir, r.w)

\* the bytes a handler making the calls ops wrote
RECURSIVE BytesOf(_)
BytesOf(ops) ==
    IF ops = <<>> THEN 0
    ELSE (IF Head(ops)[1] = "Write" THEN Head(ops)[2] ELSE 0) + BytesOf(Tail(ops))

\* C12: requests handled at the same time by the same built middleware each
\* get an interceptor of their own, and under every interleaving the status
\* and the byte count a request's after-callback or response extractors
\* read are those its own handler produced, as if it had run alone.
C12_OwnInterceptor ==
    /\ \A x, y \in Goroutines :
        (x # y /\ conc.g[x].pc # "idle" /\ conc.g[y].pc # "idle") =>
            conc.g[x].p # conc.g[y].p
    /\ \A x \in Goroutines :
        LET q == conc.g[x]
            i == Alone(q.ops, NewRespInterceptor, NewSink)
        IN  q.pc = "done" =>
                q.seen = <<"status", AnyInt(Status(i).val),
                           "body_size", AnyInt(BytesOf(q.ops))>>

\* g1 entered the handler after g2 did and is over while g2 is still inside
\* its handler: g2 has written three bytes, g1 wrote 404 and two bytes and
\* its after-callback read just that
C12_Witness ==
    /\ conc.g["g2"].pc = "handler"
    /\ conc.g["g2"].p = 1
    /\ conc.g["g2"].ops = <<<<"Write", 3>>>>
    /\ conc.g["g1"].pc = "done"
    /\ conc.g["g1"].p = 2
    /\ conc.g["g1"].kind = "gen"
    /\ conc.g["g1"].ops = <<<<"WriteHeader", 404>>, <<"Write", 2>>>>
    /\ conc.g["g1"].seen = <<"status", AnyInt(404), "body_size", AnyInt(2)>>

(***************************************************************************)
(* Claims about what Write hands back, checked under SpecResp.             *)
(***************************************************************************)
\* C13: Write returns exactly the count and the error the real sink's Write
\* returned: it never replaces, suppresses or adds an error, and never
\* changes the count.
C13_WriteReturnsSinkResult ==
    obs.ret.op = "Write" =>
        /\ obs.ret.val = obs.sink.size
        /\ obs.ret.err = obs.sink.err

\* the sink took two bytes of a longer slice and failed; Write returned 2
\* and the error
C13_Witness ==
    /\ obs.ret = [op |-> "Write", val |-> 2, err |-> TRUE]
    /\ obs.sink = [size |-> 2, err |-> TRUE]
    /\ obs.asked > obs.returned

\* C14: Written() is the sum of the counts the sink returned, and a Write
\* whose sink fails after taking k bytes raises Written() by exactly k.
C14_WrittenCountsFailedWrites ==
    /\ [](Written(ir) = obs.sinkSum)
    /\ [][(obs'.writes = obs.writes + 1 /\ obs'.sink.err)
              => Written(ir') = Written(ir) + obs'.sink.size]_vars

\* two bytes were written in full, then the sink took one byte of a longer
\* slice and failed: Written() is 3
C14_Witness ==
    /\ obs.writes = 2
    /\ obs.ret = [op |-> "Write", val |-> 1, err |-> TRUE]
    /\ obs.asked >= 4
    /\ Written(ir) = 3

(***************************************************************************)
(* Claims about Hijack, checked under SpecHijack.                          *)
(***************************************************************************)
\* C15: when the sink supports connection takeover, Hijack hands every call
\* to the sink and returns the sink's result unchanged; when it does not,
\* Hijack returns a non-nil error with a nil connection and a nil buffer
\* and never a nil connection together with a nil error.
C15_Hijack ==
    obs.hj.calls > 0 =>
        IF w.hijacker
        THEN /\ obs.hj.ret = obs.hj.sink
             /\ w.hijackCalls = obs.hj.calls
        ELSE /\ obs.hj.ret.err # "nil"
             /\ obs.hj.ret.conn = "nil"
             /\ obs.hj.ret.rw = "nil"
             /\ w.hijackCalls = 0

\* Hijack was called on an interceptor whose sink is no http.Hijacker,
\* after a Write
C15_Witness ==
    /\ ~w.hijacker
    /\ obs.hj.calls = 1
    /\ obs.writes = 1
    /\ obs.hj.ret.err = "hijack not supported"

(***************************************************************************)
(* Claims about the defaults of the logging builder, checked under SpecLog.*)
(***************************************************************************)
\* C16: a logging middleware built from a fresh builder on which no setter
\* was called has both entries enabled, the messages "http request" and
\* "http response", level Info, the request extractors method, path,
\* content length and the response extractors status, bytes written, in
\* that order; the entries it logs carry just that.
C16_FreshBuilderDefaults ==
    lcalls = Len(lmw) =>
        /\ \A m \in 1..Len(lmw) :
            /\ LCfg(m).reqLog
            /\ LCfg(m).respLog
            /\ LCfg(m).reqMsg = "http request"
            /\ LCfg(m).respMsg = "http response"
            /\ LCfg(m).lvl = 0
            /\ LCfg(m).reqInfoFns = <<"MethodReqInfoExtractor", "PathReqInfoExtractor",
                                      "SizeReqInfoExtractor">>
            /\ LCfg(m).respInfoFns = <<"StatusRespInfoExtractor", "SizeRespInfoExtractor">>
        /\ \A s \in Slots :
            LET q == lreq[s]
                t == q.trace
            IN  /\ q.pc # "idle" =>
                    /\ t[1].e = "log"
                    /\ t[1].msg = "http request"
                    /\ t[1].lvl = 0
                    /\ t[1].args = <<"method", AnyString(q.r.method),
                                     "path", AnyString(q.r.path),
                                     "size", AnyInt64(q.r.size)>>
                /\ q.pc = "done" =>
                    /\ Len(t) = 4
                    /\ t[4].e = "log"
                    /\ t[4].msg = "http response"
                    /\ t[4].lvl = 0
                    /\ Len(t[4].args) = 4
                    /\ t[4].args[1] = "status"
                    /\ t[4].args[3] = "body_size"
                    /\ t[4].args[4] = AnyInt(q.hsum)

\* no setter was ever called, and a POST the handler answered with 404 and
\* three bytes was logged on the way in and on the way out
C16_Witness ==
    /\ lcalls = Len(lmw)
    /\ \E s \in Slots :
        /\ lreq[s].pc = "done"
        /\ lreq[s].trace[1].args = <<"method", AnyString("POST"),
                                     "path", AnyString("/items"),
                                     "size", AnyInt64(2)>>
        /\ lreq[s].trace[4].args = <<"status", AnyInt(404), "body_size", AnyInt(3)>>

(***************************************************************************)
(* Claims about ServerConfig.Check, checked under SpecCheck.               *)
(***************************************************************************)
\* the config has a CORS section whose MaxAge is negative
CorsBad(c) == c.Cors # <<>> /\ c.Cors[1].MaxAge < 0

\* C17: Check returns ErrCorsBadMaxAge whenever a CORS section is present
\* with MaxAge < 0, returns ErrListenAddressMissing whenever ListenAddress
\* is empty, and returns nil exactly when neither holds.
C17_CheckErrors ==
    chk.pc = "checked" =>
        /\ CorsBad(chk.before) => chk.ret = "ErrCorsBadMaxAge"
        /\ chk.before.ListenAddress = "" => chk.ret = "ErrListenAddressMissing"
        /\ chk.ret = "nil" <=> (~CorsBad(chk.before) /\ chk.before.ListenAddress # "")

\* C17, amended: Check returns ErrCorsBadMaxAge whenever a CORS section is
\* present with MaxAge < 0, also when ListenAddress is empty as well;
\* returns ErrListenAddressMissing whenever ListenAddress is empty and the
\* CORS section is absent or has MaxAge >= 0; and returns nil exactly when
\* neither holds.
C17_CheckErrorsCorsFirst ==
    chk.pc = "checked" =>
        /\ CorsBad(chk.before) => chk.ret = "ErrCorsBadMaxAge"
        /\ (chk.before.ListenAddress = "" /\ ~CorsBad(chk.before))
               => chk.ret = "ErrListenAddressMissing"
        /\ chk.ret = "nil" <=> (~CorsBad(chk.before) /\ chk.before.ListenAddress # "")

\* Check was called on a config with MaxAge -1 and no listen address
C17_Witness ==
    /\ chk.pc = "checked"
    /\ chk.before.Cors = <<[MaxAge |-> -1]>>
    /\ chk.before.ListenAddress = ""
    /\ chk.ret = "ErrCorsBadMaxAge"

\* C18: after Check returned nil on a config with a Telemetry section,
\* Telemetry.Path is not empty: it is "/metrics" if it was empty before the
\* call and is what it was otherwise.
C18_TelemetryPathDefault ==
    (chk.pc = "checked" /\ chk.ret = "nil" /\ chk.before.Telemetry # <<>>) =>
        /\ chk.cfg.Telemetry # <<>>
        /\ chk.cfg.Telemetry[1].Path # ""
        /\ chk.cfg.Telemetry[1].Path =
               IF chk.before.Telemetry[1].Path = "" THEN "/metrics"
               ELSE chk.before.Telemetry[1].Path
        /\ chk.cfg.Telemetry[1].Enabled = chk.before.Telemetry[1].Enabled

\* Check returned nil on a config whose telemetry path was empty
C18_Witness ==
    /\ chk.pc = "checked"
    /\ chk.ret = "nil"
    /\ chk.before.Telemetry # <<>>
    /\ chk.before.Telemetry[1].Path = ""
    /\ chk.cfg.Telemetry[1].Path = "/metrics"

RECURSIVE CallsOfKind(_, _)
CallsOfKind(calls, e) ==
    IF calls = <<>> THEN <<>>
    ELSE IF Head(calls).e = e
         THEN <<Head(calls)>> \o CallsOfKind(Tail(calls), e)
         ELSE CallsOfKind(Tail(calls), e)

\* the registered mappers that say they handle err
Handlers(ems, err) == {k \in 1..Len(ems) : MapperHandles(ems[k], err)}

\* the first of them
FirstHandler(ems, err) ==
    CHOOSE k \in Handlers(ems, err) : \A j \in Handlers(ems, err) : k <= j

\* C20: when SendWithStatus is given an error, the ErrorMappers are invoked
\* in registration order; the first one that returns true ends the
\* enumeration, so that no later mapper and no http.Error fallback runs; if
\* none returns true, every mapper is invoked exactly once, in order, and
\* the http.Error fallback runs exactly once, after them.
C20_ErrorMapperOrder ==
    (out.sent.op = "SendWithStatus" /\ out.sent.v[1] = "error") =>
        LET ems == out.sent.ems
            err == out.sent.v[2]
            calls == out.sent.calls
            mc == CallsOfKind(calls, "mapper")
            fb == CallsOfKind(calls, "http.Error")
            n == IF Handlers(ems, err) = {} THEN Len(ems) ELSE FirstHandler(ems, err)
        IN  /\ Len(mc) = n
            /\ \A k \in 1..n : mc[k].k = k /\ mc[k].m = ems[k]
            /\ IF Handlers(ems, err) = {}
               THEN /\ Len(fb) = 1
                    /\ calls[Len(calls)].e = "http.Error"
                    /\ fb[1].status = out.sent.status
               ELSE /\ fb = <<>>
                    /\ calls[Len(calls)].e = "mapper"
                    /\ calls[Len(calls)].k = n

\* three mappers are registered, the second is the first to handle the error
\* sent: the third one and the fallback were not called
C20_Witness ==
    /\ out.sent.op = "SendWithStatus"
    /\ out.sent.v = <<"error", "not found">>
    /\ out.sent.ems = <<"mapNone", "mapNotFound", "mapAll">>
    /\ Len(CallsOfKind(out.sent.calls, "mapper")) = 2
    /\ CallsOfKind(out.sent.calls, "http.Error") = <<>>

(***************************************************************************)
(* Claims about WriteHeader after Write, checked under SpecResp.           *)
(***************************************************************************)
\* C22: once a Write has been made on the interceptor, every later
\* WriteHeader(S) is dropped: the real sink does not get it and the
\* recorded status does not change; and when no WriteHeader came before the
\* first Write, Status() is 200 whatever was passed afterwards.
C22_WriteHeaderAfterWriteDropped ==
    /\ [][(obs.writes >= 1 /\ obs'.hdrCalls = obs.hdrCalls + 1)
              => (w' = w /\ ir'.status = ir.status /\ Status(ir').val = Status(ir).val)]_vars
    /\ []((obs.writes >= 1 /\ obs.firstStatus = 0)
              => (Status(ir).val = 200 /\ w.headerCalls = <<>>))

\* a Write came first, then two WriteHeader calls: the sink saw neither and
\* Status() is 200
C22_Witness ==
    /\ obs.writes = 1
    /\ obs.hdrCalls = 2
    /\ obs.firstStatus = 0
    /\ obs.ret.op = "WriteHeader"
    /\ w.headerCalls = <<>>
    /\ Status(ir).val = 200

(***************************************************************************)
(* Claims about a failing filter, checked under SpecPanic.                 *)
(***************************************************************************)
\* the entries of kind e in the trace t
RECURSIVE EventsOf(_, _)
EventsOf(t, e) ==
    IF t = <<>> THEN <<>>
    ELSE IF Head(t).e = e
         THEN <<Head(t)>> \o EventsOf(Tail(t), e)
         ELSE EventsOf(Tail(t), e)

\* C21: the filter predicate is evaluated exactly once per request, first
\* of all; when it panics the panic reaches the caller of the middleware
\* and neither the before-callback, the wrapped handler nor the
\* after-callback is invoked for that request.
C21_FilterPanicPropagates ==
    \A s \in Slots :
        LET q == greq[s]
            t == q.trace
        IN  q.pc # "idle" =>
                /\ Len(EventsOf(t, "filter")) = 1
                /\ t[1].e = "filter"
                /\ t[1].fn = "panics" =>
                    /\ q.pc = "panicked"
                    /\ Kinds(t) = <<"filter", "panic">>
                    /\ q.calls = 0
                    /\ q.sink = "none"
                    /\ q.w = NewSink
                /\ t[1].fn # "panics" => EventsOf(t, "panic") = <<>>

\* a request met the panicking filter of a built middleware
C21_Witness ==
    \E s \in Slots :
        /\ greq[s].pc = "panicked"
        /\ greq[s].r.method = "POST"
        /\ greq[s].trace[1].fn = "panics"
        /\ Len(greq[s].trace) = 2

(***************************************************************************)
(* Claims about the dispatch to the wrapped handler, checked under         *)
(* SpecDispatch.                                                           *)
(***************************************************************************)
\* the calls of next.ServeHTTP recorded for a request are exactly one call
\* with the request itself and the writer sink, or none
OneDispatch(q, sink) ==
    LET n == EventsOf(q.trace, "next") IN
    /\ Len(n) = 1
    /\ n[1].r = q.r
    /\ n[1].sink = sink
    /\ Len(EventsOf(q.trace, "return")) = (IF q.pc = "handler" THEN 0 ELSE 1)

NoDispatch(q) ==
    EventsOf(q.trace, "next") = <<>> /\ EventsOf(q.trace, "return") = <<>>

\* C23: both middlewares call the wrapped handler exactly once for every
\* request, with the request they were given: the interceptor middleware
\* with ir when the filter returned true and with w when it returned
\* false, the logging middleware with ir when response logging is enabled
\* and with w when it is not, whatever the request-logging flag; before
\* the dispatch no call has been made, after it no second one follows.
C23_DispatchedOnce ==
    \A s \in Slots :
        /\ greq[s].pc \in {"idle", "before", "dispatch", "pass"} => NoDispatch(greq[s])
        /\ greq[s].pc \in {"handler", "after", "done"} =>
              OneDispatch(greq[s],
                          IF EventsOf(greq[s].trace, "filter")[1].res THEN "ir" ELSE "raw")
        /\ lreq[s].pc \in {"idle", "dispatch"} => NoDispatch(lreq[s])
        /\ lreq[s].pc \in {"handler", "resplog", "done"} =>
              OneDispatch(lreq[s],
                          IF LCfg(lreq[s].mw).respLog THEN "ir" ELSE "raw")

\* a request the filter rejected and a request served with both logging
\* steps disabled have both been through their middleware: each reached
\* the handler once, on the branch that does not intercept
C23_Witness ==
    \E s \in Slots :
        /\ greq[s].pc = "done"
        /\ ~EventsOf(greq[s].trace, "filter")[1].res
        /\ EventsOf(greq[s].trace, "next") = <<[e |-> "next", sink |-> "raw", r |-> greq[s].r]>>
        /\ lreq[s].pc = "done"
        /\ ~LCfg(lreq[s].mw).reqLog
        /\ ~LCfg(lreq[s].mw).respLog
        /\ EventsOf(lreq[s].trace, "next") = <<[e |-> "next", sink |-> "raw", r |-> lreq[s].r]>>

(***************************************************************************)
(* Claims about the variable err of RunUntil, checked under SpecRunFair.   *)
(***************************************************************************)
\* C24: in RunUntil the variable err is free of races: once listening
\* succeeded, the serving goroutine never writes err after the read made
\* by return err, and what RunUntil returns is the value err holds, the
\* same under every interleaving of the serving goroutine and the stopping
\* path.
C24_ErrRaceFree ==
    /\ [][(run.pc = "returned" /\ run.listened) => run'.err = run.err]_vars
    /\ []((run.pc = "returned" /\ run.listened) => run.ret = run.err)

====
